---- MODULE Spec2Model ----
(***************************************************************************)
(* Axis grouping and ungrouping of n-dimensional arrays                    *)
(* (projector_utils/merge.py) and the split-point validation of tsvd       *)
(* (projector_utils/decomp.py).                                            *)
(*                                                                         *)
(* A tensor is a record [shape, at]: shape is the sequence of axis sizes   *)
(* and at maps every index tuple of that shape to the element stored       *)
(* there.  One behaviour is one call of group, ungroup or tsvd on an       *)
(* input array, optionally followed by the inverse call on its result.     *)
(***************************************************************************)
EXTENDS Integers, Sequences, FiniteSets, TLC

\* Bounds of the explored inputs.
MaxNdim == 3
MaxAxis == 2
MaxSplitLen == 2
MaxSplit == 2

VARIABLES arr, pc, first, second

vars == <<arr, pc, first, second>>

(***************************************************************************)
(* Python and numpy primitives used by merge.py                            *)
(***************************************************************************)

\* math.prod: the product of a sequence of integers, 1 for the empty one.
RECURSIVE Prod(_)
Prod(s) ==
  IF s = <<>> THEN 1 ELSE Head(s) * Prod(Tail(s))

\* Python's s[b:e] on a tuple: a negative bound counts from the end, and
\* both bounds are clamped to [0, len(s)].
PySlice(s, b, e) ==
  LET n == Len(s)
      lo == IF b < 0 THEN (IF b + n < 0 THEN 0 ELSE b + n)
            ELSE (IF b > n THEN n ELSE b)
      hi == IF e < 0 THEN (IF e + n < 0 THEN 0 ELSE e + n)
            ELSE (IF e > n THEN n ELSE e)
  IN SubSeq(s, lo + 1, hi)

\* All index tuples of an array of the given shape.
RECURSIVE Indices(_)
Indices(shape) ==
  IF shape = <<>> THEN {<<>>}
  ELSE {<<i>> \o r : i \in 0..(Head(shape) - 1), r \in Indices(Tail(shape))}

\* C-order (row-major) linear position of an index tuple: last axis fastest.
RECURSIVE Ravel(_, _)
Ravel(idx, shape) ==
  IF idx = <<>> THEN 0
  ELSE Head(idx) * Prod(Tail(shape)) + Ravel(Tail(idx), Tail(shape))

\* The index tuple at C-order linear position k.
RECURSIVE Unravel(_, _)
Unravel(k, shape) ==
  IF shape = <<>> THEN <<>>
  ELSE LET p == Prod(Tail(shape))
       IN <<k \div p>> \o Unravel(k % p, Tail(shape))

\* (variant: Fortran-order linear position, first axis fastest)
RECURSIVE RavelF(_, _)
RavelF(idx, shape) ==
  IF idx = <<>> THEN 0
  ELSE Head(idx) + Head(shape) * RavelF(Tail(idx), Tail(shape))

\* An array of the given shape holding 0, 1, 2, ... in C order
\* (pairwise distinct elements, so that any reordering is visible).
Arange(shape) ==
  [shape |-> shape, at |-> [idx \in Indices(shape) |-> Ravel(idx, shape)]]

NoTensor == [shape |-> <<>>, at |-> <<>>]

\* Outcome of a call: the error kind ("none" when it returned), whether the
\* call got as far as its reshape, and the returned array.
Raised(kind, reshaped) ==
  [err |-> kind, reshaped |-> reshaped, out |-> NoTensor]

Returned(t) ==
  [err |-> "none", reshaped |-> TRUE, out |-> t]

\* (variant: the new shape is filled in Fortran order)
ViewF(t, shape) ==
  [shape |-> shape,
   at |-> [idx \in Indices(shape) |->
             t.at[Unravel(RavelF(idx, shape), t.shape)]]]

\* The array a reshape returns once the new shape is settled: the element at
\* an index of the new shape is the input's element at the same C-order
\* linear position.
View(t, shape) ==
  [shape |-> shape,
   at |-> [idx \in Indices(shape) |->
             t.at[Unravel(Ravel(idx, shape), t.shape)]]]

\* numpy.ndarray.reshape(*dims): a negative entry is the unknown dimension,
\* at most one is allowed, and it is inferred as size / (product of the
\* others), which fails when that product is 0 or does not divide the size;
\* without an unknown dimension the product must equal the size.
Reshape(t, dims) ==
  LET neg == {i \in DOMAIN dims : dims[i] < 0}
      known == Prod(SelectSeq(dims, LAMBDA d : d >= 0))
      size == Prod(t.shape)
  IN IF Cardinality(neg) > 1 THEN Raised("ReshapeError", TRUE)
     ELSE IF neg # {}
       THEN IF known = 0 \/ size % known # 0
              THEN Raised("ReshapeError", TRUE)
              ELSE Returned(View(t, [i \in DOMAIN dims |->
                     IF dims[i] < 0 THEN size \div known ELSE dims[i]]))
       ELSE IF size # known
              THEN Raised("ReshapeError", TRUE)
              ELSE Returned(View(t, dims))

(***************************************************************************)
(* merge.py                                                                *)
(***************************************************************************)

\* "if i < 0: i += arr.ndim": one addition, no wrap-around.
NormIndex(i, n) ==
  IF i < 0 THEN i + n ELSE i

\* (variant: an empty range begin = end passes the check)
ValidRangeLoose(b, e, n) ==
  0 <= b /\ b <= e /\ e <= n

\* group's check 0 <= begin < end <= arr.ndim.
ValidRange(b, e, n) ==
  0 <= b /\ b < e /\ e <= n

\* The shape group asks reshape for: the merged axis is left to numpy (-1).
GroupDims(shape, b, e) ==
  PySlice(shape, 0, b) \o <<-1>> \o PySlice(shape, e, Len(shape))

\* group(arr, begin, end)
Group(t, begin, end) ==
  LET n == Len(t.shape)
      b == NormIndex(begin, n)
      e == NormIndex(end, n)
  IN IF ~ValidRange(b, e, n) THEN Raised("InvalidAxisRange", FALSE)
     ELSE Reshape(t, GroupDims(t.shape, b, e))

\* ungroup's check 0 <= target < arr.ndim.
ValidTarget(tg, n) ==
  0 <= tg /\ tg < n

\* (variant: the product check is skipped)
SplitMismatchNever(nl, split) ==
  FALSE

\* ungroup's check nl != math.prod(split).
SplitMismatch(nl, split) ==
  nl # Prod(split)

\* (variant: the new axes are appended after the remaining ones)
UngroupDimsAppended(shape, tg, split) ==
  PySlice(shape, 0, tg) \o PySlice(shape, tg + 1, Len(shape)) \o split

\* The shape ungroup asks reshape for: split takes the target axis's place.
UngroupDims(shape, tg, split) ==
  PySlice(shape, 0, tg) \o split \o PySlice(shape, tg + 1, Len(shape))

\* ungroup(arr, target, split)
Ungroup(t, target, split) ==
  LET n == Len(t.shape)
      tg == NormIndex(target, n)
  IN IF ~ValidTarget(tg, n) THEN Raised("InvalidAxisIndex", FALSE)
     ELSE IF SplitMismatch(t.shape[tg + 1], split)
       THEN Raised("ShapeMismatch", FALSE)
       ELSE Reshape(t, UngroupDims(t.shape, tg, split))

(***************************************************************************)
(* decomp.py: tsvd's split-point check and its reshape to a matrix         *)
(***************************************************************************)

\* (variant: nu = d passes the check)
ValidSplitPointLoose(nu, d) ==
  1 <= nu /\ nu <= d

\* tsvd's check 1 <= nu <= arr.ndim - 1.
ValidSplitPoint(nu, d) ==
  1 <= nu /\ nu <= d - 1

\* tsvd(arr, nu) up to the matrix handed to the dense SVD routine: axes
\* [nu, d) become the columns, then axes [0, nu) the rows.
Tsvd(t, nu) ==
  LET d == Len(t.shape)
  IN IF ~ValidSplitPoint(nu, d) THEN Raised("InvalidSplitPoint", FALSE)
     ELSE LET cols == Group(t, nu, d)
          IN IF cols.err # "none" THEN cols ELSE Group(cols.out, 0, nu)

(***************************************************************************)
(* The calls                                                               *)
(***************************************************************************)

RECURSIVE SeqsUpTo(_, _)
SeqsUpTo(S, n) ==
  IF n = 0 THEN {<<>>}
  ELSE LET shorter == SeqsUpTo(S, n - 1)
       IN shorter \cup {Append(s, x) : s \in {q \in shorter : Len(q) = n - 1}, x \in S}

Shapes == SeqsUpTo(0..MaxAxis, MaxNdim)

\* Candidate splits; -1 is the entry numpy's reshape reads as "unknown".
Splits == SeqsUpTo((-1)..MaxSplit, MaxSplitLen)

\* A completed call: the function, its arguments (x, y: the integer
\* arguments, split: ungroup's split), its input and its outcome.
Call(op, x, y, split, in, res) ==
  [op |-> op, x |-> x, y |-> y, split |-> split, in |-> in, res |-> res]

NoCall == Call("none", 0, 0, <<>>, NoTensor, Raised("none", FALSE))

Init ==
  /\ arr \in {Arange(s) : s \in Shapes}
  /\ pc = "start"
  /\ first = NoCall
  /\ second = NoCall

\* group(arr, b, e)
CallGroup ==
  /\ pc = "start"
  /\ \E b \in (-(Len(arr.shape) + 1))..(Len(arr.shape) + 1),
        e \in (-(Len(arr.shape) + 1))..(Len(arr.shape) + 1) :
       first' = Call("group", b, e, <<>>, arr, Group(arr, b, e))
  /\ pc' = "called"
  /\ UNCHANGED <<arr, second>>

\* ungroup(arr, t, split)
CallUngroup ==
  /\ pc = "start"
  /\ \E t \in (-(Len(arr.shape) + 1))..Len(arr.shape), split \in Splits :
       first' = Call("ungroup", t, 0, split, arr, Ungroup(arr, t, split))
  /\ pc' = "called"
  /\ UNCHANGED <<arr, second>>

\* tsvd(arr, nu)
CallTsvd ==
  /\ pc = "start"
  /\ \E nu \in (-1)..(Len(arr.shape) + 1) :
       first' = Call("tsvd", nu, 0, <<>>, arr, Tsvd(arr, nu))
  /\ pc' = "called"
  /\ UNCHANGED <<arr, second>>

\* ungroup(group(arr, b, e), b, arr.shape[b:e]), once group has returned
UngroupBack ==
  /\ pc = "called"
  /\ first.op = "group"
  /\ first.res.err = "none"
  /\ LET split == PySlice(arr.shape, first.x, first.y)
     IN second' = Call("ungroup", first.x, 0, split, first.res.out,
                       Ungroup(first.res.out, first.x, split))
  /\ pc' = "done"
  /\ UNCHANGED <<arr, first>>

\* group(ungroup(arr, t, split), t, t + len(split)), once ungroup has returned
GroupBack ==
  /\ pc = "called"
  /\ first.op = "ungroup"
  /\ first.res.err = "none"
  /\ second' = Call("group", first.x, first.x + Len(first.split), <<>>,
                    first.res.out,
                    Group(first.res.out, first.x, first.x + Len(first.split)))
  /\ pc' = "done"
  /\ UNCHANGED <<arr, first>>

Next ==
  \/ CallGroup
  \/ CallUngroup
  \/ CallTsvd
  \/ UngroupBack
  \/ GroupBack

Spec == Init /\ [][Next]_vars

\* The calls completed so far.
Calls ==
  (IF pc = "start" THEN {} ELSE {first}) \cup (IF pc = "done" THEN {second} ELSE {})

(***************************************************************************)
(* Vocabulary of the properties, stated without the definitions above      *)
(***************************************************************************)

\* An index as the properties read it: ndim is added once to a negative one.
AfterAdding(i, n) ==
  IF i < 0 THEN i + n ELSE i

Ndim(c) == Len(c.in.shape)

Begin(c) == AfterAdding(c.x, Ndim(c))

End(c) == AfterAdding(c.y, Ndim(c))

\* The range of a group call satisfies 0 <= b < e <= ndim after normalization.
RangeOk(c) ==
  0 <= Begin(c) /\ Begin(c) < End(c) /\ End(c) <= Ndim(c)

\* The target of an ungroup call is in [0, ndim) after normalization.
TargetOk(c) ==
  0 <= Begin(c) /\ Begin(c) < Ndim(c)

\* Product of the entries of a sequence, taken from the right.
RECURSIVE Product(_)
Product(s) ==
  IF Len(s) = 0 THEN 1 ELSE Product(SubSeq(s, 1, Len(s) - 1)) * s[Len(s)]

\* Row-major position of an index tuple (Horner form): last entry fastest.
RECURSIVE RowMajorPos(_, _)
RowMajorPos(idx, shape) ==
  IF Len(idx) = 0 THEN 0
  ELSE RowMajorPos(SubSeq(idx, 1, Len(idx) - 1), SubSeq(shape, 1, Len(shape) - 1))
         * shape[Len(shape)] + idx[Len(idx)]

\* The elements of a tensor paired with their row-major positions.
Linear(t) ==
  {<<RowMajorPos(idx, t.shape), t.at[idx]>> : idx \in DOMAIN t.at}

GroupCalls == {c \in Calls : c.op = "group"}

UngroupCalls == {c \in Calls : c.op = "ungroup"}

TsvdCalls == {c \in Calls : c.op = "tsvd"}

\* Shape and elements a group call over a valid range is to return.
GroupedShape(c) ==
  SubSeq(c.in.shape, 1, Begin(c))
    \o <<Product(SubSeq(c.in.shape, Begin(c) + 1, End(c)))>>
    \o SubSeq(c.in.shape, End(c) + 1, Ndim(c))

\* Shape an ungroup call with a valid target is to return.
UngroupedShape(c) ==
  SubSeq(c.in.shape, 1, Begin(c)) \o c.split
    \o SubSeq(c.in.shape, Begin(c) + 2, Ndim(c))

\* Every element of the input of a group call sits, in the result, at the
\* row-major position of its merged indices, the other indices unchanged.
MergedRowMajor(c) ==
  \A idx \in DOMAIN c.in.at :
    LET b == Begin(c)
        e == End(c)
        j == RowMajorPos(SubSeq(idx, b + 1, e), SubSeq(c.in.shape, b + 1, e))
        at == SubSeq(idx, 1, b) \o <<j>> \o SubSeq(idx, e + 1, Len(idx))
    IN at \in DOMAIN c.res.out.at /\ c.res.out.at[at] = c.in.at[idx]

\* Every element of the result of an ungroup call comes from the input's
\* target-axis index that is the row-major position of its split indices.
SplitRowMajor(c) ==
  \A idx \in DOMAIN c.res.out.at :
    LET t == Begin(c)
        k == Len(c.split)
        j == RowMajorPos(SubSeq(idx, t + 1, t + k), c.split)
        from == SubSeq(idx, 1, t) \o <<j>> \o SubSeq(idx, t + k + 1, Len(idx))
    IN from \in DOMAIN c.in.at /\ c.res.out.at[idx] = c.in.at[from]

(***************************************************************************)
(* Properties                                                              *)
(***************************************************************************)

\* C1: for any tensor and any range group accepts (b, e possibly negative),
\* ungroup(group(T, b, e), b, shape(T)[b:e]) succeeds and returns T.
C1_GroupThenUngroupIsIdentity ==
  (pc # "start" /\ first.op = "group" /\ RangeOk(first)) =>
    /\ first.res.err = "none"
    /\ pc = "done" => (second.res.err = "none" /\ second.res.out = arr)

\* C2: for every tensor (zero-size axes included) and every range with
\* 0 <= b < e <= ndim after normalization, group returns a tensor of shape
\* shape[:b] + (prod(shape[b:e]),) + shape[e:].
C2_GroupShapeLaw ==
  \A c \in GroupCalls :
    RangeOk(c) => (c.res.err = "none" /\ c.res.out.shape = GroupedShape(c))

\* C3: group fails with InvalidAxisRange exactly when 0 <= b < e <= ndim
\* does not hold after adding ndim once to a negative b or e.
C3_GroupRangeValidation ==
  \A c \in GroupCalls :
    (c.res.err = "InvalidAxisRange") <=> ~RangeOk(c)

C3_Witness ==
  /\ pc = "called"
  /\ first.op = "group"
  /\ first.x < 0
  /\ Begin(first) < 0
  /\ first.res.err = "InvalidAxisRange"

\* C4: ungroup fails with InvalidAxisIndex when the normalized target is
\* outside [0, ndim), and for an in-range target with ShapeMismatch when
\* prod(split) differs from the target axis's size.
C4_UngroupValidation ==
  \A c \in UngroupCalls :
    /\ ~TargetOk(c) => c.res.err = "InvalidAxisIndex"
    /\ (TargetOk(c) /\ Product(c.split) # c.in.shape[Begin(c) + 1])
         => c.res.err = "ShapeMismatch"

C4_Witness ==
  /\ pc = "called"
  /\ first.op = "ungroup"
  /\ first.x < 0
  /\ TargetOk(first)
  /\ Len(first.split) = 2
  /\ Product(first.split) # first.in.shape[Begin(first) + 1]
  /\ first.res.err = "ShapeMismatch"

\* C5: for a tensor with ndim d >= 2, tsvd fails with InvalidSplitPoint
\* unless 1 <= nu <= d - 1 (so for nu = 0 and nu = d), before any reshape.
C5_TsvdSplitPointValidation ==
  \A c \in TsvdCalls :
    (Ndim(c) >= 2 /\ ~(1 <= c.x /\ c.x <= Ndim(c) - 1))
      => (c.res.err = "InvalidSplitPoint" /\ ~c.res.reshaped)

C5_Witness ==
  /\ pc = "called"
  /\ first.op = "tsvd"
  /\ Ndim(first) >= 2
  /\ first.x = Ndim(first)
  /\ first.res.err = "InvalidSplitPoint"

C8_UngroupThenGroupIsIdentity ==
  (/\ pc = "done"
   /\ first.op = "ungroup"
   /\ first.res.err = "none"
   /\ first.x >= 0
   /\ Len(first.split) >= 1) =>
    (second.res.err = "none" /\ second.res.out = arr)

\* C9: whenever group or ungroup returns, the row-major sequence of the
\* result's elements is that of the input; for group, the element at merged
\* index j is the input element whose merged-axis indices are the row-major
\* decomposition of j, the other indices unchanged.
C9_RowMajorOrder ==
  \A c \in GroupCalls \cup UngroupCalls :
    c.res.err = "none" =>
      /\ Linear(c.res.out) = Linear(c.in)
      /\ c.op = "group" => MergedRowMajor(c)

C9_Witness ==
  \E c \in GroupCalls :
    /\ c.res.err = "none"
    /\ End(c) - Begin(c) >= 2
    /\ Ndim(c) > End(c) - Begin(c)
    /\ \A i \in DOMAIN c.in.shape : c.in.shape[i] >= 2

\* C10: a group or ungroup call that passes the function's own checks (and
\* so reaches the reshape) always returns a tensor.
C10_ValidationPrecedesReshape ==
  \A c \in GroupCalls \cup UngroupCalls :
    c.res.reshaped => c.res.err = "none"

====
